---- MODULE Spec2Model ----
(***************************************************************************)
(* A model of the LCD8574 driver (src/src/lcd8574.c): an HD44780 character *)
(* LCD driven in 4-bit mode through a PCF8574 I2C expander.                *)
(*                                                                         *)
(* The state is one LCD8574 object (i2c_addr, fd, rows, cols, ready), the  *)
(* descriptor table of the process, and a record of the last public call:  *)
(* its arguments, its result and the trace of system calls it made (open,  *)
(* ioctl, write, usleep, close), in program order.                         *)
(***************************************************************************)
EXTENDS Integers, Sequences, FiniteSets, TLC

(***************************************************************************)
(* Bounds of the model.                                                    *)
(***************************************************************************)
\* Geometries rows x cols with rows in 1..MaxRows, cols in 1..MaxCols
MaxRows == 2
MaxCols == 2
\* Strings of up to MaxLen bytes before the terminator
MaxLen == 3
\* Size of the descriptor table of the process
MaxFds == 2
\* Rows of the geometries given to lcd8574_create when addresses are computed
MaxGeomRows == 4

(***************************************************************************)
(* Program constants.                                                      *)
(***************************************************************************)
PIN_RS  == 0
PIN_RW  == 1
PIN_E   == 2
PIN_LED == 3
PIN_D4  == 4

CMD_CLEAR          == 1
CMD_CTRL           == 8
CMD_FUNC           == 32
CMD_SET_DDRAM_ADDR == 128
LCD_FUNC_N         == 8
LCD_FUNC_DL        == 16
LCD_CHARS_PER_ROW  == 64

LCD_MODE_CURSOR_BLINK == 1
LCD_MODE_CURSOR_ON    == 2
LCD_MODE_DISPLAY_ON   == 4

\* main.c: the address and the geometry of the test driver
I2C_ADDR == 39
ROWS     == 2
COLS     == 16

(***************************************************************************)
(* C integer arithmetic on bytes.                                          *)
(***************************************************************************)
Pow2(k) == IF k = 0 THEN 1 ELSE IF k = 1 THEN 2 ELSE IF k = 2 THEN 4
           ELSE IF k = 3 THEN 8 ELSE IF k = 4 THEN 16 ELSE IF k = 5 THEN 32
           ELSE IF k = 6 THEN 64 ELSE 128

\* Conversion of an int to BYTE (unsigned char): the low 8 bits, two's
\* complement for a negative int
ToByte(x) == x % 256

Bit(b, k) == (b \div Pow2(k)) % 2

\* a | b on the low n bits of two non-negative ints
RECURSIVE OrBits(_, _, _)
OrBits(a, b, n) ==
  IF n = 0 THEN 0
  ELSE (IF a % 2 = 1 \/ b % 2 = 1 THEN 1 ELSE 0)
         + 2 * OrBits(a \div 2, b \div 2, n - 1)

\* (BYTE)(a | b) for ints a and b
BitOr(a, b) == OrBits(ToByte(a), ToByte(b), 8)


(***************************************************************************)
(* System calls, as the events of a trace.                                 *)
(*   open   arg = the descriptor returned (-1 on error)                    *)
(*   ioctl  arg = the slave address                                        *)
(*   write  arg = the byte written                                         *)
(*   usleep arg = microseconds                                             *)
(*   close  arg = the descriptor                                           *)
(* ok is the outcome of the call.                                          *)
(***************************************************************************)
Ev(op, arg, ok) == [op |-> op, arg |-> arg, ok |-> ok]

W(b)       == Ev("write", b, TRUE)
Usleep(us) == Ev("usleep", us, TRUE)

\* self->ready = TRUE, the last step of a successful lcd8574_init: the one
\* step of a trace that is no system call
SetReady == Ev("ready", 1, TRUE)

\* static BYTE lcd8574_set_bit_value (BYTE b, int bit, BOOL val)
\* ret |= (1 << bit) adds the bit where it is clear; ret &= ~(1 << bit)
\* takes it away where it is set
lcd8574_set_bit_value(b, bit, val) ==
  IF val THEN (IF Bit(b, bit) = 1 THEN b ELSE ToByte(b + Pow2(bit)))
         ELSE (IF Bit(b, bit) = 1 THEN b - Pow2(bit) ELSE b)

(***************************************************************************)
(* The write path: each function is the sequence of system calls it makes. *)
(***************************************************************************)
\* lcd8574_send_4_bits returning as soon as the clock is written low
send_4_bits_no_hold(rs, n) ==
  LET b0 == ToByte(n * 16)
      b1 == IF PIN_LED > 0 THEN lcd8574_set_bit_value(b0, PIN_LED, TRUE) ELSE b0
      b2 == lcd8574_set_bit_value(b1, PIN_RS, rs # 0)
      b3 == lcd8574_set_bit_value(b2, PIN_E, TRUE)
      b4 == lcd8574_set_bit_value(b3, PIN_E, FALSE)
  IN << W(b3), Usleep(1000), W(b4) >>

\* lcd8574_send_4_bits with the register-select level put on the RW pin
send_4_bits_rs_on_rw(rs, n) ==
  LET b0 == ToByte(n * 16)
      b1 == IF PIN_LED > 0 THEN lcd8574_set_bit_value(b0, PIN_LED, TRUE) ELSE b0
      b2 == lcd8574_set_bit_value(b1, PIN_RW, rs # 0)
      b3 == lcd8574_set_bit_value(b2, PIN_E, TRUE)
      b4 == lcd8574_set_bit_value(b3, PIN_E, FALSE)
  IN << W(b3), Usleep(1000), W(b4), Usleep(1000) >>

\* lcd8574_send_4_bits with the clock written low first and high last
send_4_bits_clock_low_then_high(rs, n) ==
  LET b0 == ToByte(n * 16)
      b1 == IF PIN_LED > 0 THEN lcd8574_set_bit_value(b0, PIN_LED, TRUE) ELSE b0
      b2 == lcd8574_set_bit_value(b1, PIN_RS, rs # 0)
      b3 == lcd8574_set_bit_value(b2, PIN_E, FALSE)
      b4 == lcd8574_set_bit_value(b3, PIN_E, TRUE)
  IN << W(b3), Usleep(1000), W(b4), Usleep(1000) >>

\* static void lcd8574_send_4_bits (LCD8574 *self, BOOL rs, BYTE n)
lcd8574_send_4_bits(rs, n) ==
  LET b0 == ToByte(n * 16)                 \* (n << 4) & 0xF0
      b1 == IF PIN_LED > 0 THEN lcd8574_set_bit_value(b0, PIN_LED, TRUE) ELSE b0
      b2 == lcd8574_set_bit_value(b1, PIN_RS, rs # 0)
      b3 == lcd8574_set_bit_value(b2, PIN_E, TRUE)
      b4 == lcd8574_set_bit_value(b3, PIN_E, FALSE)
  IN << W(b3), Usleep(1000), W(b4), Usleep(1000) >>

\* lcd8574_send_byte with the high nibble sent twice
send_byte_high_nibble_twice(rs, n) ==
  lcd8574_send_4_bits(rs, (ToByte(n) \div 16) % 16)
    \o lcd8574_send_4_bits(rs, (ToByte(n) \div 16) % 16)

\* lcd8574_send_byte with the two nibbles in the wrong order
send_byte_low_nibble_first(rs, n) ==
  lcd8574_send_4_bits(rs, ToByte(n) % 16)
    \o lcd8574_send_4_bits(rs, (ToByte(n) \div 16) % 16)

\* static void lcd8574_send_byte (LCD8574 *self, BOOL rs, BYTE n)
lcd8574_send_byte(rs, n) ==
  lcd8574_send_4_bits(rs, (ToByte(n) \div 16) % 16)       \* (n >> 4) & 0x0F
    \o lcd8574_send_4_bits(rs, ToByte(n) % 16)            \* n & 0x0F

\* A C string: the bytes of the buffer s followed by the terminator
CharAt(s, i) == IF i <= Len(s) THEN s[i] ELSE 0

\* lcd8574_write_char_at taking the display's width for the row stride
write_char_at_packed_rows(self, row, col, c) ==
  IF row < self.rows /\ col < self.cols
  THEN lcd8574_send_byte(0, BitOr(CMD_SET_DDRAM_ADDR, row * self.cols + col))
         \o lcd8574_send_byte(1, c)
  ELSE << >>

\* void lcd8574_write_char_at (LCD8574 *self, int row, int col, BYTE c)
lcd8574_write_char_at(self, row, col, c) ==
  IF row < self.rows /\ col < self.cols
  THEN LET addr == row * LCD_CHARS_PER_ROW + col
       IN lcd8574_send_byte(0, BitOr(CMD_SET_DDRAM_ADDR, addr))
            \o lcd8574_send_byte(1, c)
  ELSE << >>

\* The loop of lcd8574_write_string_at with col <= cols for col < cols
RECURSIVE write_string_loop_past_end(_, _, _, _, _, _)
write_string_loop_past_end(self, row, col, s, i, wrap) ==
  IF CharAt(s, i) # 0 /\ row < self.rows /\ col <= self.cols
  THEN lcd8574_send_byte(1, CharAt(s, i))
         \o (IF col + 1 >= self.cols /\ wrap
             THEN lcd8574_send_byte(0,
                    BitOr(CMD_SET_DDRAM_ADDR, (row + 1) * LCD_CHARS_PER_ROW + 0))
                    \o write_string_loop_past_end(self, row + 1, 0, s, i + 1, wrap)
             ELSE write_string_loop_past_end(self, row, col + 1, s, i + 1, wrap))
  ELSE << >>

\* The loop of lcd8574_write_string_at wrapping from the last row to row 0
RECURSIVE write_string_loop_scrolls(_, _, _, _, _, _)
write_string_loop_scrolls(self, row, col, s, i, wrap) ==
  IF CharAt(s, i) # 0 /\ row < self.rows /\ col < self.cols
  THEN lcd8574_send_byte(1, CharAt(s, i))
         \o (IF col + 1 >= self.cols /\ wrap
             THEN lcd8574_send_byte(0,
                    BitOr(CMD_SET_DDRAM_ADDR,
                          ((row + 1) % self.rows) * LCD_CHARS_PER_ROW + 0))
                    \o write_string_loop_scrolls(self, (row + 1) % self.rows, 0,
                                                 s, i + 1, wrap)
             ELSE write_string_loop_scrolls(self, row, col + 1, s, i + 1, wrap))
  ELSE << >>

\* The while loop of lcd8574_write_string_at, from the character at index i
RECURSIVE write_string_loop(_, _, _, _, _, _)
write_string_loop(self, row, col, s, i, wrap) ==
  IF CharAt(s, i) # 0 /\ row < self.rows /\ col < self.cols
  THEN lcd8574_send_byte(1, CharAt(s, i))
         \o (IF col + 1 >= self.cols /\ wrap
             THEN lcd8574_send_byte(0,
                    BitOr(CMD_SET_DDRAM_ADDR, (row + 1) * LCD_CHARS_PER_ROW + 0))
                    \o write_string_loop(self, row + 1, 0, s, i + 1, wrap)
             ELSE write_string_loop(self, row, col + 1, s, i + 1, wrap))
  ELSE << >>

\* lcd8574_write_string_at with || for && in its bounds test
write_string_at_either_bound(self, row, col, s, wrap) ==
  IF row < self.rows \/ col < self.cols
  THEN LET addr == row * LCD_CHARS_PER_ROW + col
       IN lcd8574_send_byte(0, BitOr(CMD_SET_DDRAM_ADDR, addr))
            \o write_string_loop(self, row, col, s, 1, wrap)
  ELSE << >>

\* void lcd8574_write_string_at (LCD8574 *self, int row, int col,
\*                               const BYTE *s, BOOL wrap)
lcd8574_write_string_at(self, row, col, s, wrap) ==
  IF row < self.rows /\ col < self.cols
  THEN LET addr == row * LCD_CHARS_PER_ROW + col
       IN lcd8574_send_byte(0, BitOr(CMD_SET_DDRAM_ADDR, addr))
            \o write_string_loop(self, row, col, s, 1, wrap)
  ELSE << >>

\* lcd8574_clear sending the return-home command for the clear command
clear_sends_home == lcd8574_send_byte(0, 2)

\* void lcd8574_clear (LCD8574 *self)
lcd8574_clear == lcd8574_send_byte(0, CMD_CLEAR)

\* void lcd8574_set_cursor (LCD8574 *self, int row, int col): the string
\* literal "\0"
lcd8574_set_cursor(self, row, col) ==
  lcd8574_write_string_at(self, row, col, << 0 >>, TRUE)

\* lcd8574_set_mode that never drops the display-on flag
set_mode_keeps_display_on(mode) ==
  lcd8574_send_byte(0, BitOr(BitOr(CMD_CTRL, LCD_MODE_DISPLAY_ON), mode))

\* void lcd8574_set_mode (LCD8574 *self, BYTE mode)
lcd8574_set_mode(mode) == lcd8574_send_byte(0, BitOr(CMD_CTRL, mode))

(***************************************************************************)
(* The object and its life cycle.  fds is the set of descriptors open in   *)
(* the process; open() returns the lowest free one.                        *)
(***************************************************************************)
Descriptors == 0..(MaxFds - 1)

LowestFree(fds) ==
  CHOOSE d \in Descriptors \ fds : \A e \in Descriptors \ fds : d <= e

IsWrite(e) == e.op = "write"

\* The outcomes of the writes of a function run on descriptor fd: a write
\* fails on a descriptor that is not open
Perform(calls, fd, fds) ==
  [i \in 1..Len(calls) |->
     IF IsWrite(calls[i]) THEN [calls[i] EXCEPT !.ok = fd \in fds]
     ELSE calls[i]]

\* LCD8574 *lcd8574_create (int i2c_addr, int rows, int cols)
lcd8574_create(i2c_addr, rows, cols) ==
  [i2c_addr |-> i2c_addr, fd |-> -1, ready |-> FALSE,
   rows |-> rows, cols |-> cols]

\* lcd8574_init, from the reset of the outputs to the display-on command
\* The handshake with the display cleared before the function set
init_handshake_clear_first ==
  LET func8 == BitOr(CMD_FUNC, LCD_FUNC_DL)
      func4 == BitOr(CMD_FUNC, 0)
      funcN == BitOr(CMD_FUNC, LCD_FUNC_N)
  IN << W(0), Usleep(35000) >>
       \o lcd8574_send_4_bits(0, func8 \div 16) \o << Usleep(35000) >>
       \o lcd8574_send_4_bits(0, func8 \div 16) \o << Usleep(35000) >>
       \o lcd8574_send_4_bits(0, func8 \div 16) \o << Usleep(35000) >>
       \o lcd8574_send_4_bits(0, func4 \div 16) \o << Usleep(35000) >>
       \o lcd8574_clear
       \o lcd8574_send_byte(0, funcN)
       \o lcd8574_set_mode(LCD_MODE_DISPLAY_ON)

init_handshake ==
  LET func8 == BitOr(CMD_FUNC, LCD_FUNC_DL)
      func4 == BitOr(CMD_FUNC, 0)
      funcN == BitOr(CMD_FUNC, LCD_FUNC_N)
  IN << W(0), Usleep(35000) >>
       \o lcd8574_send_4_bits(0, func8 \div 16) \o << Usleep(35000) >>
       \o lcd8574_send_4_bits(0, func8 \div 16) \o << Usleep(35000) >>
       \o lcd8574_send_4_bits(0, func8 \div 16) \o << Usleep(35000) >>
       \o lcd8574_send_4_bits(0, func4 \div 16) \o << Usleep(35000) >>
       \o lcd8574_send_byte(0, funcN)
       \o lcd8574_clear
       \o lcd8574_set_mode(LCD_MODE_DISPLAY_ON)

\* The index of each write of the handshake among its writes, from 1
init_write_index ==
  [i \in DOMAIN init_handshake |->
     Cardinality({j \in 1..i : IsWrite(init_handshake[j])})]

\* The handshake on the descriptor just opened: the device fails the
\* writes whose index is in failing, and no result of write() is read
init_writes(failing) ==
  [i \in DOMAIN init_handshake |->
     IF IsWrite(init_handshake[i])
     THEN [init_handshake[i] EXCEPT !.ok = init_write_index[i] \notin failing]
     ELSE init_handshake[i]]

\* lcd8574_init with ready set as soon as open() succeeds
init_ready_after_open(self, fds, openOk, bindOk, failing) ==
  LET newfd == IF openOk THEN LowestFree(fds) ELSE -1
      fds1  == IF newfd >= 0 THEN fds \cup {newfd} ELSE fds
      s1    == [self EXCEPT !.fd = newfd]
      open  == Ev("open", newfd, newfd >= 0)
      ioctl == Ev("ioctl", self.i2c_addr, bindOk)
  IN IF newfd >= 0
     THEN IF bindOk
          THEN [self  |-> [s1 EXCEPT !.ready = TRUE],
                fds   |-> fds1,
                calls |-> << open, ioctl >> \o init_writes(failing)
                            \o << SetReady >>,
                ret   |-> TRUE,
                err   |-> ""]
          ELSE [self  |-> [s1 EXCEPT !.ready = TRUE],
                fds   |-> fds1,
                calls |-> << open, ioctl >>,
                ret   |-> FALSE,
                err   |-> "Can't intialize I2C device"]
     ELSE [self  |-> s1,
           fds   |-> fds1,
           calls |-> << open >>,
           ret   |-> FALSE,
           err   |-> "Can't open I2C device"]

\* lcd8574_init with the reset of the outputs made before the result of
\* ioctl() is tested
init_reset_before_bind(self, fds, openOk, bindOk, failing) ==
  LET newfd == IF openOk THEN LowestFree(fds) ELSE -1
      fds1  == IF newfd >= 0 THEN fds \cup {newfd} ELSE fds
      s1    == [self EXCEPT !.fd = newfd]
      open  == Ev("open", newfd, newfd >= 0)
      ioctl == Ev("ioctl", self.i2c_addr, bindOk)
  IN IF newfd >= 0
     THEN IF bindOk
          THEN [self  |-> [s1 EXCEPT !.ready = TRUE],
                fds   |-> fds1,
                calls |-> << open, ioctl >> \o init_writes(failing)
                            \o << SetReady >>,
                ret   |-> TRUE,
                err   |-> ""]
          ELSE [self  |-> s1,
                fds   |-> fds1,
                calls |-> << open, ioctl, W(0), Usleep(35000) >>,
                ret   |-> FALSE,
                err   |-> "Can't intialize I2C device"]
     ELSE [self  |-> s1,
           fds   |-> fds1,
           calls |-> << open >>,
           ret   |-> FALSE,
           err   |-> "Can't open I2C device"]

\* BOOL lcd8574_init (LCD8574 *self, char **error).  openOk and bindOk are
\* the outcomes of open() and ioctl(), failing the writes the device fails.
lcd8574_init(self, fds, openOk, bindOk, failing) ==
  LET newfd == IF openOk THEN LowestFree(fds) ELSE -1
      fds1  == IF newfd >= 0 THEN fds \cup {newfd} ELSE fds
      s1    == [self EXCEPT !.fd = newfd]
      open  == Ev("open", newfd, newfd >= 0)
      ioctl == Ev("ioctl", self.i2c_addr, bindOk)
  IN IF newfd >= 0
     THEN IF bindOk
          THEN [self  |-> [s1 EXCEPT !.ready = TRUE],
                fds   |-> fds1,
                calls |-> << open, ioctl >> \o init_writes(failing)
                            \o << SetReady >>,
                ret   |-> TRUE,
                err   |-> ""]
          ELSE [self  |-> s1,
                fds   |-> fds1,
                calls |-> << open, ioctl >>,
                ret   |-> FALSE,
                err   |-> "Can't intialize I2C device"]
     ELSE [self  |-> s1,
           fds   |-> fds1,
           calls |-> << open >>,
           ret   |-> FALSE,
           err   |-> "Can't open I2C device"]

\* lcd8574_uninit closing the descriptor without testing it
uninit_closes_always(self, fds) ==
  [self  |-> [self EXCEPT !.ready = FALSE],
   fds   |-> fds \ {self.fd},
   calls |-> << Ev("close", self.fd, self.fd \in fds) >>]

\* void lcd8574_uninit (LCD8574 *self)
lcd8574_uninit(self, fds) ==
  [self  |-> [self EXCEPT !.ready = FALSE],
   fds   |-> IF self.fd >= 0 THEN fds \ {self.fd} ELSE fds,
   calls |-> IF self.fd >= 0
             THEN << Ev("close", self.fd, self.fd \in fds) >>
             ELSE << >>]

\* void lcd8574_destroy (LCD8574 *self): uninit, then free
lcd8574_destroy(self, fds) == lcd8574_uninit(self, fds)

(***************************************************************************)
(* State.                                                                  *)
(*   hc     the LCD8574 object (main.c calls it hc)                        *)
(*   alive  the object is allocated: created and not yet destroyed         *)
(*   fds    the descriptors open in the process                            *)
(*   call   the last public call: function, arguments, result, and the     *)
(*          object as it was when the call was made                        *)
(*   trace  the system calls the last public call made, in order           *)
(***************************************************************************)
VARIABLES hc, alive, fds, call, trace

vars == << hc, alive, fds, call, trace >>

Geometries == ((1..MaxRows) \X (1..MaxCols)) \cup {<< ROWS, COLS >>}

\* Characters of the strings written: the terminator and two letters
Chars == {0, 65, 66}

\* "12:34:56", an instance of the "%02d:%02d:%02d" that main writes
ClockString == << 49, 50, 58, 51, 52, 58, 53, 54 >>

Strings == UNION {[1..n -> Chars] : n \in 0..MaxLen} \cup {ClockString}

\* Every value of a BYTE
Bytes == 0..255

Modes == 0..(LCD_MODE_CURSOR_BLINK + LCD_MODE_CURSOR_ON + LCD_MODE_DISPLAY_ON)

\* The level of the clock line E after the writes of tr, prev before them
ClockAfter(prev, tr) ==
  LET w == SelectSeq(tr, IsWrite)
  IN IF w = << >> THEN prev ELSE Bit(w[Len(w)].arg, PIN_E)

\* The record of a call made now.  rs is the register select of a call of
\* the static send functions; e is the level of E that the writes before
\* this call left on the expander (-1: nothing written yet)
Call(op, row, col, s, wrap, c, ret, err) ==
  [op |-> op, row |-> row, col |-> col, s |-> s, wrap |-> wrap, c |-> c,
   rs |-> 0, ret |-> ret, err |-> err, pre |-> hc,
   e |-> ClockAfter(call.e, trace)]

Init ==
  \E g \in Geometries :
    /\ hc = lcd8574_create(I2C_ADDR, g[1], g[2])
    /\ alive = TRUE
    /\ fds = {}
    /\ call = [op |-> "create", row |-> 0, col |-> 0, s |-> << >>,
               wrap |-> FALSE, c |-> 0, rs |-> 0, ret |-> TRUE, err |-> "",
               pre |-> lcd8574_create(I2C_ADDR, g[1], g[2]), e |-> -1]
    /\ trace = << >>

\* hc = lcd8574_create (I2C_ADDR, rows, cols), once the last object is gone
Create(rows, cols) ==
  /\ ~alive
  /\ hc' = lcd8574_create(I2C_ADDR, rows, cols)
  /\ alive' = TRUE
  /\ call' = Call("create", 0, 0, << >>, FALSE, 0, TRUE, "")
  /\ trace' = << >>
  /\ UNCHANGED fds

\* lcd8574_init (hc, &error); open() finds a free descriptor or fails
InitCall(openOk, bindOk, failing) ==
  /\ alive
  /\ openOk => Descriptors \ fds # {}
  /\ LET r == lcd8574_init(hc, fds, openOk, bindOk, failing)
     IN /\ hc' = r.self
        /\ fds' = r.fds
        /\ trace' = r.calls
        /\ call' = Call("init", 0, 0, << >>, FALSE, 0, r.ret, r.err)
  /\ UNCHANGED alive

\* lcd8574_uninit (hc)
Uninit ==
  /\ alive
  /\ LET r == lcd8574_uninit(hc, fds)
     IN /\ hc' = r.self
        /\ fds' = r.fds
        /\ trace' = r.calls
  /\ call' = Call("uninit", 0, 0, << >>, FALSE, 0, TRUE, "")
  /\ UNCHANGED alive

\* lcd8574_destroy (hc)
Destroy ==
  /\ alive
  /\ LET r == lcd8574_destroy(hc, fds)
     IN /\ hc' = r.self
        /\ fds' = r.fds
        /\ trace' = r.calls
  /\ alive' = FALSE
  /\ call' = Call("destroy", 0, 0, << >>, FALSE, 0, TRUE, "")

\* lcd8574_write_char_at (hc, row, col, c)
WriteCharAt(row, col, c) ==
  /\ alive
  /\ trace' = Perform(lcd8574_write_char_at(hc, row, col, c), hc.fd, fds)
  /\ call' = Call("write_char_at", row, col, << >>, FALSE, c, TRUE, "")
  /\ UNCHANGED << hc, alive, fds >>

\* lcd8574_write_string_at (hc, row, col, s, wrap)
WriteStringAt(row, col, s, wrap) ==
  /\ alive
  /\ trace' = Perform(lcd8574_write_string_at(hc, row, col, s, wrap),
                      hc.fd, fds)
  /\ call' = Call("write_string_at", row, col, s, wrap, 0, TRUE, "")
  /\ UNCHANGED << hc, alive, fds >>

\* lcd8574_clear (hc)
Clear ==
  /\ alive
  /\ trace' = Perform(lcd8574_clear, hc.fd, fds)
  /\ call' = Call("clear", 0, 0, << >>, FALSE, 0, TRUE, "")
  /\ UNCHANGED << hc, alive, fds >>

\* lcd8574_set_cursor (hc, row, col)
SetCursor(row, col) ==
  /\ alive
  /\ trace' = Perform(lcd8574_set_cursor(hc, row, col), hc.fd, fds)
  /\ call' = Call("set_cursor", row, col, << >>, FALSE, 0, TRUE, "")
  /\ UNCHANGED << hc, alive, fds >>

\* lcd8574_set_mode (hc, mode)
SetMode(mode) ==
  /\ alive
  /\ trace' = Perform(lcd8574_set_mode(mode), hc.fd, fds)
  /\ call' = Call("set_mode", 0, 0, << >>, FALSE, mode, TRUE, "")
  /\ UNCHANGED << hc, alive, fds >>

(***************************************************************************)
(* Spec: every sequence of public calls on one object at a time, with      *)
(* every outcome of open(), ioctl() and of the writes of the handshake.    *)
(* The addressed writes take a few arguments on and around the display.    *)
(***************************************************************************)
InitWrites == Cardinality({i \in DOMAIN init_handshake : IsWrite(init_handshake[i])})

\* No write fails, or one of the writes of the handshake does
Failing == {{}} \cup {{n} : n \in 1..InitWrites}

CallCreate == \E g \in Geometries : Create(g[1], g[2])

CallInit ==
  \E openOk \in BOOLEAN, bindOk \in BOOLEAN, failing \in Failing :
    /\ (~openOk \/ ~bindOk) => failing = {}
    /\ ~openOk => bindOk
    /\ InitCall(openOk, bindOk, failing)

CallWriteCharAt ==
  \E row \in {-1, 0, hc.rows}, col \in {0, hc.cols} :
    WriteCharAt(row, col, 65)

CallWriteStringAt ==
  \E row \in {-1, 0, hc.rows}, col \in {0, hc.cols},
     s \in {<< >>, << 65, 66 >>}, wrap \in BOOLEAN :
    WriteStringAt(row, col, s, wrap)

CallSetCursor ==
  \E row \in {-1, 0, hc.rows}, col \in {0, hc.cols} : SetCursor(row, col)

CallSetMode == \E mode \in {0, LCD_MODE_DISPLAY_ON} : SetMode(mode)

Next ==
  \/ CallCreate
  \/ CallInit
  \/ Uninit
  \/ Destroy
  \/ CallWriteCharAt
  \/ CallWriteStringAt
  \/ Clear
  \/ CallSetCursor
  \/ CallSetMode

Spec == Init /\ [][Next]_vars

(***************************************************************************)
(* SpecWrite: the write path as a function of its arguments.  It starts    *)
(* after create and a successful init, for every geometry, and applies one *)
(* addressed operation to every position one cell around the display,      *)
(* every string of Strings, both values of wrap, and every mode.           *)
(***************************************************************************)
InitWrite ==
  \E g \in Geometries :
    LET h0 == lcd8574_create(I2C_ADDR, g[1], g[2])
        r  == lcd8574_init(h0, {}, TRUE, TRUE, {})
    IN /\ hc = r.self
       /\ alive = TRUE
       /\ fds = r.fds
       /\ trace = r.calls
       /\ call = [op |-> "init", row |-> 0, col |-> 0, s |-> << >>,
                  wrap |-> FALSE, c |-> 0, rs |-> 0, ret |-> r.ret,
                  err |-> r.err, pre |-> h0, e |-> -1]

AfterInit == call.op = "init"

RowArgs == -1..hc.rows
ColArgs == -1..hc.cols

ApplyWriteCharAt ==
  /\ AfterInit
  /\ \E row \in RowArgs, col \in ColArgs, c \in Bytes : WriteCharAt(row, col, c)

ApplyWriteStringAt ==
  /\ AfterInit
  /\ \E row \in RowArgs, col \in ColArgs, s \in Strings, wrap \in BOOLEAN :
       WriteStringAt(row, col, s, wrap)

ApplyClear == AfterInit /\ Clear

ApplySetCursor ==
  /\ AfterInit
  /\ \E row \in RowArgs, col \in ColArgs : SetCursor(row, col)

ApplySetMode == AfterInit /\ \E mode \in Modes : SetMode(mode)

NextWrite ==
  \/ ApplyWriteCharAt
  \/ ApplyWriteStringAt
  \/ ApplyClear
  \/ ApplySetCursor
  \/ ApplySetMode

SpecWrite == InitWrite /\ [][NextWrite]_vars

(***************************************************************************)
(* SpecSend: the two static send functions as functions of their           *)
(* arguments: after create and a successful init, one call with either     *)
(* register select, every nibble, and every byte.                          *)
(***************************************************************************)
\* lcd8574_send_4_bits (self, rs, n)
Send4Bits(rs, n) ==
  /\ alive
  /\ trace' = Perform(lcd8574_send_4_bits(rs, n), hc.fd, fds)
  /\ call' = [Call("send_4_bits", 0, 0, << >>, FALSE, n, TRUE, "")
                EXCEPT !.rs = rs]
  /\ UNCHANGED << hc, alive, fds >>

\* lcd8574_send_byte (self, rs, n)
SendByte(rs, n) ==
  /\ alive
  /\ trace' = Perform(lcd8574_send_byte(rs, n), hc.fd, fds)
  /\ call' = [Call("send_byte", 0, 0, << >>, FALSE, n, TRUE, "")
                EXCEPT !.rs = rs]
  /\ UNCHANGED << hc, alive, fds >>

Nibbles == 0..15

ApplySend4Bits ==
  /\ AfterInit
  /\ \E rs \in {0, 1}, n \in Nibbles : Send4Bits(rs, n)

ApplySendByte ==
  /\ AfterInit
  /\ \E rs \in {0, 1}, n \in Bytes : SendByte(rs, n)

NextSend ==
  \/ ApplySend4Bits
  \/ ApplySendByte

SpecSend == InitWrite /\ [][NextSend]_vars

(***************************************************************************)
(* Reading a trace.                                                        *)
(***************************************************************************)
\* The writes of a trace, in order
Writes(tr) == SelectSeq(tr, IsWrite)

NumWrites(tr) == Len(Writes(tr))

\* The bytes the display receives: a byte is two nibble transactions of
\* two writes each, the nibble on D7..D4 and the register select on RS
WrittenBytes(tr) ==
  LET w == Writes(tr)
  IN [k \in 1..(Len(w) \div 4) |->
        [rs |-> w[4 * k - 3].arg % 2,
         b  |-> (w[4 * k - 3].arg \div 16) * 16 + (w[4 * k - 1].arg \div 16)]]

Command(b) == [rs |-> 0, b |-> b]
Data(b)    == [rs |-> 1, b |-> b]

\* The set-address command of the cell (row, col), as a byte
SetAddress(row, col) ==
  Command(128 + ((row * 64 + col) % 128))

InRect(row, col) ==
  /\ 0 <= row /\ row < hc.rows
  /\ 0 <= col /\ col < hc.cols

NonZero(s) == \A i \in DOMAIN s : s[i] # 0

Failed(op) == \E i \in DOMAIN trace : trace[i].op = op /\ ~trace[i].ok

(***************************************************************************)
(* C1.  Between public calls, the descriptor of the object is an open      *)
(* descriptor if and only if ready is true.                                *)
(***************************************************************************)
C1_HandleValidIffReady == alive => ((hc.fd \in fds) <=> hc.ready)

(***************************************************************************)
(* C2.  Teardown closes a descriptor once: after an uninit that closed the *)
(* descriptor of a successfully initialized object, the uninit or destroy  *)
(* called next calls no close.                                             *)
(***************************************************************************)
C2_TeardownClosesOnce ==
  [][(/\ call.op = "uninit"
      /\ call.pre.ready
      /\ trace = << Ev("close", call.pre.fd, TRUE) >>
      /\ call'.op \in {"uninit", "destroy"})
       => \A i \in DOMAIN trace' : trace'[i].op # "close"]_vars

(***************************************************************************)
(* C3.  Whenever init returns failure the object is unready, whatever the  *)
(* state it was called in.                                                 *)
(***************************************************************************)
C3_FailedInitUnready == (call.op = "init" /\ ~call.ret) => ~hc.ready

(***************************************************************************)
(* C4, as claimed.  A failure of open, of ioctl or of any write of the     *)
(* handshake, in an init called on an unready object, makes init return    *)
(* failure with an error message, and ready stays false.                   *)
(***************************************************************************)
C4_AnyIoFailureFails ==
  (/\ call.op = "init"
   /\ ~call.pre.ready
   /\ (Failed("open") \/ Failed("ioctl") \/ Failed("write")))
    => (~call.ret /\ call.err # "" /\ ~hc.ready)

(***************************************************************************)
(* C4, amended.  A failure of open or of ioctl makes init return failure   *)
(* with an error message and leaves ready as it was; when both succeed     *)
(* init returns success and sets ready, whether or not a write of the      *)
(* handshake failed.                                                       *)
(***************************************************************************)
C4_OpenOrBindFailureFails ==
  call.op = "init" =>
    IF Failed("open") \/ Failed("ioctl")
    THEN ~call.ret /\ call.err # "" /\ hc.ready = call.pre.ready
    ELSE call.ret /\ call.err = "" /\ hc.ready

C4_Witness ==
  /\ call.op = "init"
  /\ ~call.pre.ready
  /\ Failed("ioctl")
  /\ ~call.ret
  /\ ~hc.ready

(***************************************************************************)
(* C5.  An init that fails at ioctl on a freshly created object returns    *)
(* failure, leaves ready false and has made no write.                      *)
(***************************************************************************)
C5_BindFailureNoWrites ==
  (/\ call.op = "init"
   /\ call.pre.fd = -1
   /\ ~call.pre.ready
   /\ Failed("ioctl"))
    => (~call.ret /\ ~hc.ready /\ NumWrites(trace) = 0)

C5_Witness ==
  /\ call.op = "init"
  /\ call.pre.fd = -1
  /\ ~call.pre.ready
  /\ Failed("ioctl")
  /\ hc.fd \in fds

(***************************************************************************)
(* C6.  write_char_at and write_string_at at a position with row >= rows   *)
(* or col >= cols make no write.                                           *)
(***************************************************************************)
C6_BeyondIsNoOp ==
  (/\ call.op \in {"write_char_at", "write_string_at"}
   /\ (call.row >= hc.rows \/ call.col >= hc.cols))
    => NumWrites(trace) = 0

C6_Witness ==
  /\ call.op = "write_string_at"
  /\ call.row < hc.rows
  /\ call.col >= hc.cols
  /\ call.s = << 65, 66 >>
  /\ call.wrap
  /\ trace = << >>

(***************************************************************************)
(* C7.  write_char_at, write_string_at and set_cursor at a position        *)
(* outside [0, rows) x [0, cols), a negative row or column included, make  *)
(* no write.                                                               *)
(***************************************************************************)
C7_OutsideIsNoOp ==
  (/\ call.op \in {"write_char_at", "write_string_at", "set_cursor"}
   /\ ~InRect(call.row, call.col))
    => NumWrites(trace) = 0

(***************************************************************************)
(* C8.  set_cursor at a position on the display sends the set-address      *)
(* command of the cell and then one data byte of value 0.                  *)
(***************************************************************************)
C8_SetCursorSendsNull ==
  (call.op = "set_cursor" /\ InRect(call.row, call.col))
    => WrittenBytes(trace) = << SetAddress(call.row, call.col), Data(0) >>

(***************************************************************************)
(* C9.  write_string_at without wrap, at a position on the display, of L   *)
(* >= 1 non-zero characters that fit in the row sends one set-address      *)
(* command and then the L characters in order as data, in 4 * (L + 1)      *)
(* writes: 36 writes for "12:34:56" at (0, 0) on the 2 x 16 display.       *)
(***************************************************************************)
C9_StringInRow ==
  (/\ call.op = "write_string_at"
   /\ InRect(call.row, call.col)
   /\ ~call.wrap
   /\ Len(call.s) >= 1
   /\ NonZero(call.s)
   /\ call.col + Len(call.s) <= hc.cols)
    => /\ WrittenBytes(trace) =
            << SetAddress(call.row, call.col) >>
              \o [i \in 1..Len(call.s) |-> Data(call.s[i])]
       /\ NumWrites(trace) = 4 * (Len(call.s) + 1)
       /\ (hc.rows = 2 /\ hc.cols = 16 /\ Len(call.s) = 8)
            => NumWrites(trace) = 36

C9_Witness ==
  /\ hc.rows = 2 /\ hc.cols = 16
  /\ call.op = "write_string_at"
  /\ call.row = 0 /\ call.col = 0
  /\ call.s = ClockString
  /\ ~call.wrap
  /\ NumWrites(trace) = 36

(***************************************************************************)
(* C10.  On a display of 2 rows, write_string_at with wrap at (0, 0) of    *)
(* cols + 1 non-zero characters sends two set-address commands in all:     *)
(* that of address 0, the first cols characters, that of address 64, and   *)
(* the last character.                                                     *)
(***************************************************************************)
C10_WrapOnce ==
  (/\ hc.rows = 2
   /\ call.op = "write_string_at"
   /\ call.row = 0 /\ call.col = 0
   /\ call.wrap
   /\ Len(call.s) = hc.cols + 1
   /\ NonZero(call.s))
    => WrittenBytes(trace) =
         << Command(128) >>
           \o [i \in 1..hc.cols |-> Data(call.s[i])]
           \o << Command(128 + 64), Data(call.s[hc.cols + 1]) >>

(***************************************************************************)
(* More reading of a trace.                                                *)
(***************************************************************************)
\* The bytes written, in order
WriteArgs(tr) == [i \in DOMAIN Writes(tr) |-> Writes(tr)[i].arg]

IsData(x) == x.rs = 1

\* The length of the C string in buffer s: the characters before the
\* first terminator
StrLen(s) ==
  IF \E i \in DOMAIN s : s[i] = 0
  THEN (CHOOSE i \in DOMAIN s : s[i] = 0 /\ \A j \in 1..(i - 1) : s[j] # 0) - 1
  ELSE Len(s)

Min(a, b) == IF a <= b THEN a ELSE b

\* The cells from (row, col) to the end of the display, in reading order
Remaining(row, col) == (hc.cols - col) + (hc.rows - row - 1) * hc.cols

(***************************************************************************)
(* C11.  write_string_at without wrap, at a position on the display, of a  *)
(* string of L characters sends one set-address command and then the first *)
(* min(L, cols - col) characters in order as data, and nothing more: no    *)
(* data byte and no set-address command once the column has reached cols.  *)
(***************************************************************************)
C11_NoWrapTruncates ==
  (/\ call.op = "write_string_at"
   /\ InRect(call.row, call.col)
   /\ ~call.wrap)
    => WrittenBytes(trace) =
         << SetAddress(call.row, call.col) >>
           \o [i \in 1..Min(StrLen(call.s), hc.cols - call.col) |->
                 Data(call.s[i])]

C11_Witness ==
  /\ call.op = "write_string_at"
  /\ InRect(call.row, call.col)
  /\ ~call.wrap
  /\ StrLen(call.s) > hc.cols - call.col
  /\ NumWrites(trace) = 4 * (1 + hc.cols - call.col)

(***************************************************************************)
(* C12.  write_string_at with wrap, at a position on the display, of a     *)
(* string longer than the cells remaining sends as data exactly the first  *)
(* Remaining characters, in order, and each of them lands in its           *)
(* reading-order cell: on a row below the last row, addressed by the       *)
(* set-address command of that row's first written cell.  Nothing is       *)
(* written past the last row or back on the first row.                     *)
(***************************************************************************)
C12_WrapStopsAtLastCell ==
  (/\ call.op = "write_string_at"
   /\ InRect(call.row, call.col)
   /\ call.wrap
   /\ StrLen(call.s) > Remaining(call.row, call.col))
    => LET B == WrittenBytes(trace)
           D == { k \in DOMAIN B : IsData(B[k]) }
       IN /\ SelectSeq(B, IsData) =
               [k \in 1..Remaining(call.row, call.col) |-> Data(call.s[k])]
          /\ \A k \in D :
               LET j    == CHOOSE j \in 1..(k - 1) :
                             /\ ~IsData(B[j])
                             /\ \A m \in (j + 1)..(k - 1) : IsData(B[m])
                   cell == call.col + Cardinality({ m \in D : m <= k }) - 1
                   r    == call.row + (cell \div hc.cols)
                   c0   == IF r = call.row THEN call.col ELSE 0
               IN /\ r < hc.rows
                  /\ B[j] = SetAddress(r, c0)
                  /\ k - j - 1 = (cell % hc.cols) - c0

C12_Witness ==
  /\ call.op = "write_string_at"
  /\ InRect(call.row, call.col)
  /\ call.wrap
  /\ call.row < hc.rows - 1
  /\ StrLen(call.s) > Remaining(call.row, call.col)
  /\ Len(SelectSeq(WrittenBytes(trace), IsData)) = Remaining(call.row, call.col)

(***************************************************************************)
(* C13.  clear sends exactly one command byte, 0x01 with register-select   *)
(* 0, as two nibble transactions and four channel writes, and the bytes    *)
(* written are the same in every state the call is made in.                *)
(***************************************************************************)
C13_ClearIsOneCommand ==
  call.op = "clear"
    => /\ WrittenBytes(trace) = << Command(1) >>
       /\ WriteArgs(trace) = << 12, 8, 28, 24 >>

C13_Witness ==
  /\ call.op = "clear"
  /\ call.pre.ready
  /\ NumWrites(trace) = 4

(***************************************************************************)
(* C14.  set_mode(flags), for every subset of the three mode flags, sends  *)
(* exactly one command byte, 0x08 | flags with register-select 0, whatever *)
(* flags earlier calls of set_mode were given.                             *)
(***************************************************************************)
C14_SetModeNotCumulative ==
  call.op = "set_mode"
    => /\ call.c \in 0..7
       /\ WrittenBytes(trace) = << Command(8 + call.c) >>
       /\ NumWrites(trace) = 4

C14_Witness ==
  /\ call.op = "set_mode"
  /\ call.pre.ready
  /\ call.c = 2
  /\ WrittenBytes(trace) = << Command(10) >>

(***************************************************************************)
(* C15.  write_char_at(row, col, c) at a position on the display, for      *)
(* every byte c, sends exactly two bytes: the command 0x80 | (row*64+col)  *)
(* with register-select 0, then c with register-select 1; eight channel    *)
(* writes in all.                                                          *)
(***************************************************************************)
C15_CharIsAddressThenData ==
  (call.op = "write_char_at" /\ InRect(call.row, call.col))
    => /\ WrittenBytes(trace) =
            << SetAddress(call.row, call.col), Data(call.c) >>
       /\ NumWrites(trace) = 8

C15_Witness ==
  /\ call.op = "write_char_at"
  /\ call.row = 1
  /\ call.col = hc.cols - 1
  /\ InRect(call.row, call.col)
  /\ call.c = 255
  /\ NumWrites(trace) = 8

(***************************************************************************)
(* Reading a trace as nibble transactions.                                 *)
(***************************************************************************)
\* Writes 2k-1 and 2k of w make one nibble transaction: the clock high,
\* then the same byte with the clock low
IsTransaction(w, k) ==
  /\ Bit(w[2 * k - 1].arg, 2) = 1
  /\ w[2 * k].arg = w[2 * k - 1].arg - 4

\* The nibble transactions that the writes w make, in order
Transactions(w) ==
  [k \in 1..(Len(w) \div 2) |->
     [rs |-> w[2 * k - 1].arg % 2, n |-> w[2 * k - 1].arg \div 16]]

Nibble(rs, n) == [rs |-> rs, n |-> n]

(***************************************************************************)
(* C16.  A successful init makes its system calls in this order: open,     *)
(* the I2C_SLAVE ioctl, one write of the zero byte, the nibble 0x3 three   *)
(* times, the nibble 0x2 once, the byte 0x28 as two nibbles, the clear     *)
(* command 0x01, the control command 0x08 | 0x04; ready is set only after  *)
(* the last of these writes.                                               *)
(***************************************************************************)
C16_InitOrder ==
  (call.op = "init" /\ call.ret)
    => LET n == Len(trace)
           w == Writes(trace)
       IN /\ trace[1] = Ev("open", hc.fd, TRUE)
          /\ trace[2] = Ev("ioctl", hc.i2c_addr, TRUE)
          /\ \A i \in 3..(n - 1) : trace[i].op \in {"write", "usleep"}
          /\ trace[n] = SetReady
          /\ hc.ready
          /\ Len(w) = 21
          /\ w[1].arg = 0
          /\ \A k \in 1..10 : IsTransaction(Tail(w), k)
          /\ Transactions(Tail(w)) =
               << Nibble(0, 3), Nibble(0, 3), Nibble(0, 3), Nibble(0, 2),
                  Nibble(0, 2), Nibble(0, 8),
                  Nibble(0, 0), Nibble(0, 1),
                  Nibble(0, 0), Nibble(0, 12) >>

C16_Witness ==
  /\ call.op = "init"
  /\ call.ret
  /\ ~call.pre.ready
  /\ hc.ready
  /\ trace[Len(trace)] = SetReady
  /\ NumWrites(trace) = 21

(***************************************************************************)
(* C17.  A nibble transaction send_4_bits(rs, n) makes exactly two writes  *)
(* of a byte laid out [D7 D6 D5 D4 | LED | RS | RW | E]: bits 7..4 are n,  *)
(* bit 3 is 1, bit 1 is 0, bit 0 is rs; bit 2 is 1 in the first write and  *)
(* 0 in the second, and the two bytes agree in every other bit.            *)
(***************************************************************************)
C17_NibbleLayout ==
  call.op = "send_4_bits"
    => LET w == Writes(trace)
       IN /\ Len(w) = 2
          /\ \A i \in 1..2 :
               /\ w[i].arg \div 16 = call.c
               /\ Bit(w[i].arg, 3) = 1
               /\ Bit(w[i].arg, 1) = 0
               /\ Bit(w[i].arg, 0) = call.rs
          /\ Bit(w[1].arg, 2) = 1
          /\ Bit(w[2].arg, 2) = 0
          /\ \A k \in (0..7) \ {2} : Bit(w[1].arg, k) = Bit(w[2].arg, k)

C17_Witness ==
  /\ call.op = "send_4_bits"
  /\ call.rs = 1
  /\ call.c = 10
  /\ WriteArgs(trace) = << 173, 169 >>

(***************************************************************************)
(* C18.  send_byte(rs, b), for every byte b and either register-select     *)
(* level, makes exactly two nibble transactions with that register-select  *)
(* level, the high nibble of b first and the low nibble second, so the     *)
(* first nibble times 16 plus the second is b.                             *)
(***************************************************************************)
C18_ByteIsHighThenLow ==
  call.op = "send_byte"
    => LET w == Writes(trace)
           N == Transactions(w)
       IN /\ Len(w) = 4
          /\ IsTransaction(w, 1)
          /\ IsTransaction(w, 2)
          /\ N[1] = Nibble(call.rs, call.c \div 16)
          /\ N[2] = Nibble(call.rs, call.c % 16)
          /\ N[1].n * 16 + N[2].n = call.c

C18_Witness ==
  /\ call.op = "send_byte"
  /\ call.rs = 1
  /\ call.c = 165
  /\ Transactions(Writes(trace)) = << Nibble(1, 10), Nibble(1, 5) >>

(***************************************************************************)
(* C19.  A handle that is created and then only torn down makes no system  *)
(* call: create opens and writes nothing and leaves ready false and no     *)
(* descriptor; uninit and destroy of a handle with no descriptor close     *)
(* nothing and leave ready false.                                          *)
(***************************************************************************)
C19_NoInitNoIo ==
  /\ call.op = "create"
       => /\ trace = << >>
          /\ ~hc.ready
          /\ hc.fd = -1
  /\ (call.op \in {"uninit", "destroy"} /\ call.pre.fd = -1 /\ ~call.pre.ready)
       => /\ trace = << >>
          /\ ~hc.ready
          /\ hc.fd = -1

C19_Witness ==
  /\ call.op = "destroy"
  /\ call.pre.fd = -1
  /\ ~call.pre.ready
  /\ fds = {}
  /\ trace = << >>

(***************************************************************************)
(* C20.  From a successful init on, through any calls of write_char_at,    *)
(* write_string_at, clear, set_mode and set_cursor, every write with the   *)
(* clock bit E high comes directly after a write with E low, and the last  *)
(* write of every call has E low.                                          *)
(***************************************************************************)
WriteOps ==
  {"write_char_at", "write_string_at", "clear", "set_mode", "set_cursor"}

C20_ClockAlternates ==
  ((call.op = "init" /\ call.ret) \/ (call.op \in WriteOps /\ call.pre.ready))
    => LET w == Writes(trace)
       IN /\ \A i \in DOMAIN w :
               Bit(w[i].arg, PIN_E) = 1
                 => IF i = 1 THEN call.e = 0
                             ELSE Bit(w[i - 1].arg, PIN_E) = 0
          /\ w # << >> => Bit(w[Len(w)].arg, PIN_E) = 0

C20_Witness ==
  /\ call.op = "write_char_at"
  /\ call.pre.ready
  /\ call.e = 0
  /\ NumWrites(trace) = 8
  /\ Bit(Writes(trace)[1].arg, PIN_E) = 1

(***************************************************************************)
(* Delays.                                                                 *)
(***************************************************************************)
\* The microseconds slept from position i of tr on, up to the next system
\* call that is no usleep
RECURSIVE DelayFrom(_, _)
DelayFrom(tr, i) ==
  IF i > Len(tr) \/ tr[i].op # "usleep"
  THEN 0
  ELSE tr[i].arg + DelayFrom(tr, i + 1)

\* The position in tr of its k-th write
WriteAt(tr, k) ==
  LET widx == { i \in DOMAIN tr : IsWrite(tr[i]) }
  IN CHOOSE i \in widx : Cardinality({ j \in widx : j <= i }) = k

\* The writes of init that need the long delay: the reset of the outputs
\* and the second write of each of the four mode-select nibbles
SlowWrites == {1, 3, 5, 7, 9}

(***************************************************************************)
(* C21.  With each delay an event between writes: every write is followed  *)
(* by at least 1 ms of delay before the next write, and in init the write  *)
(* that resets the outputs and each of the four mode-select nibbles is     *)
(* followed by at least 35 ms of delay before the next write.              *)
(***************************************************************************)
C21_Delays ==
  /\ \A i \in DOMAIN trace :
       IsWrite(trace[i]) => DelayFrom(trace, i + 1) >= 1000
  /\ (call.op = "init" /\ NumWrites(trace) > 0)
       => \A k \in SlowWrites :
            DelayFrom(trace, WriteAt(trace, k) + 1) >= 35000

C21_Witness ==
  /\ call.op = "init"
  /\ call.ret
  /\ NumWrites(trace) = 21
  /\ DelayFrom(trace, WriteAt(trace, 1) + 1) = 35000
  /\ DelayFrom(trace, WriteAt(trace, 9) + 1) = 36000
  /\ DelayFrom(trace, WriteAt(trace, 10) + 1) = 1000

(***************************************************************************)
(* C22.  Every set-address command of write_string_at, from a position on  *)
(* the display, addresses a cell of the display: the first the starting    *)
(* cell, each later one the first cell of the next row, which is a row of  *)
(* the display; none is sent for row index rows, and none after the last   *)
(* character sent.                                                         *)
(***************************************************************************)
C22_AddressesOnDisplay ==
  (call.op = "write_string_at" /\ InRect(call.row, call.col))
    => LET B      == WrittenBytes(trace)
           K      == { k \in DOMAIN B : ~IsData(B[k]) }
           nth(k) == Cardinality({ m \in K : m <= k })
       IN /\ \A k \in K :
               LET r == call.row + nth(k) - 1
               IN /\ r < hc.rows
                  /\ B[k] = SetAddress(r, IF nth(k) = 1 THEN call.col ELSE 0)
          /\ (\E k \in DOMAIN B : IsData(B[k])) => IsData(B[Len(B)])

(***************************************************************************)
(* Addresses over the geometries that lcd8574_create accepts: one          *)
(* write_char_at at a cell of the display, after create and init.          *)
(***************************************************************************)
GeomGeometries == (1..MaxGeomRows) \X {1, MaxCols, COLS}

InitGeom ==
  \E g \in GeomGeometries :
    LET h0 == lcd8574_create(I2C_ADDR, g[1], g[2])
        r  == lcd8574_init(h0, {}, TRUE, TRUE, {})
    IN /\ hc = r.self
       /\ alive = TRUE
       /\ fds = r.fds
       /\ trace = r.calls
       /\ call = [op |-> "init", row |-> 0, col |-> 0, s |-> << >>,
                  wrap |-> FALSE, c |-> 0, rs |-> 0, ret |-> r.ret,
                  err |-> r.err, pre |-> h0, e |-> -1]

ApplyWriteCharInside ==
  /\ AfterInit
  /\ \E row \in 0..(hc.rows - 1), col \in 0..(hc.cols - 1) :
       WriteCharAt(row, col, 65)

SpecGeom == InitGeom /\ [][ApplyWriteCharInside]_vars

(***************************************************************************)
(* C23.  For every geometry that create accepts and every cell of the      *)
(* display, row*64+col is below 128, so write_char_at sends for distinct   *)
(* cells distinct set-address commands.                                    *)
(***************************************************************************)
C23_AddressFits ==
  (call.op = "write_char_at" /\ InRect(call.row, call.col))
    => /\ call.row * LCD_CHARS_PER_ROW + call.col < 128
       /\ \A r \in 0..(hc.rows - 1), c \in 0..(hc.cols - 1) :
            << r, c >> # << call.row, call.col >>
              => lcd8574_write_char_at(hc, r, c, call.c)
                   # lcd8574_write_char_at(hc, call.row, call.col, call.c)

(***************************************************************************)
(* C24.  Through any init and uninit calls on a handle, ending with        *)
(* destroy, at most one descriptor that init opened is open at any time,   *)
(* and none is open when destroy has returned.                             *)
(***************************************************************************)
C24_HandlesReleased ==
  /\ Cardinality(fds) <= 1
  /\ call.op = "destroy" => fds = {}

====
